---------------------------- MODULE Spec2Model ----------------------------
(***************************************************************************)
(* A model of scripts/module.mjs (the "rollgroups" add-on): the dice       *)
(* formula rewriting helper, the selection of damage parts for a roll      *)
(* group, the chat-card button injection, the group configuration dialog   *)
(* and the weapon picker's quick roll.                                     *)
(***************************************************************************)
EXTENDS Integers, Sequences, FiniteSets, TLC

VARIABLES
    formula,    \* scaleDiceFormula: the formula argument (a sequence of characters)
    add,        \* scaleDiceFormula: the add argument (a JS value)
    scaled,     \* scaleDiceFormula: [done, out], the returned string once called
    item,       \* the item document: its damage parts, its flags, its derived data
    roll,       \* what a roll request did: [op, idx, rolled, parts, notes]
    data,       \* the chat message data of preDisplayCard: [received, content]
    sheet,      \* the item sheet of renderItemSheet: what it holds and the links added
    config,     \* the roll configuration of preRollDamage: [title, flavor]
    hook,       \* the last hook handler run: [name, threw, logged, escaped]
    pending,    \* the document updates sent to the host and not yet applied, oldest first
    ops,        \* how many user and host operations the group dialog has seen
    longest,    \* the greatest length the item's damage-parts list has had
    clicks,     \* the add-group and delete-group clicks handled so far: [adds, deletes]
    picker,     \* the weapon picker: [level, cantrip, weapons], and whether it is shown
    quick,      \* the quick rolls started: per click [weapon, pc, attack]
    calls       \* the calls made to the host by the quick rolls, in order

scaleVars == <<formula, add, scaled>>
rollVars == <<roll>>
hookVars == <<data, sheet, config, hook>>
dialogVars == <<pending, ops, longest, clicks>>
quickVars == <<picker, quick, calls>>
vars ==
    << formula, add, scaled, item, roll, data, sheet, config, hook, pending, ops, longest,
       clicks, picker, quick, calls >>

(***************************************************************************)
(* Bounds of the model.                                                    *)
(***************************************************************************)
MaxLen == 5     \* longest formula text, in characters
MaxAdd == 1     \* largest dice increment tried
MaxParts == 3   \* most damage parts of an item
MaxGroups == 2  \* most configured groups of an item
MaxStored == 2  \* most indices stored in an item's groups, all groups together
MaxSaves == 2   \* most configured extra saving throws of an item
MaxOps == 4     \* most user and host operations on the group dialog in one run
MaxPending == 2 \* most document updates in flight at once
MaxClicks == 2  \* most quick-roll clicks on one weapon picker

(***************************************************************************)
(* Strings are sequences of one-character strings.  The classes are those  *)
(* of the JS regular expression engine restricted to the model's alphabet. *)
(***************************************************************************)
Digit == {"1", "2", "8"}                 \* \d
Space == {" ", "\n"}                     \* \s
LineTerminator == {"\n"}                 \* what . does not match
DChar == {"d", "D"}                      \* d under the /i flag
Char == Digit \cup Space \cup DChar \cup {"+"}

DigitChars == <<"0", "1", "2", "3", "4", "5", "6", "7", "8", "9">>

DigitVal(c) == CHOOSE n \in 0..9 : DigitChars[n + 1] = c

\* Number("<digits>")
RECURSIVE StrToNat(_)
StrToNat(s) ==
    IF s = <<>> THEN 0
    ELSE 10 * StrToNat(SubSeq(s, 1, Len(s) - 1)) + DigitVal(s[Len(s)])

\* String(n) of a natural number
RECURSIVE NatToStr(_)
NatToStr(n) ==
    IF n < 10 THEN <<DigitChars[n + 1]>>
    ELSE NatToStr(n \div 10) \o <<DigitChars[(n % 10) + 1]>>

\* `${n}` of an integer
NumToStr(n) == IF n < 0 THEN <<"-">> \o NatToStr(-n) ELSE NatToStr(n)

\* The end of the longest run of characters of class S that starts at i.
ScanEnd(s, i, S) ==
    CHOOSE j \in i..(Len(s) + 1) :
        /\ \A k \in i..(j - 1) : s[k] \in S
        /\ (j = Len(s) + 1 \/ s[j] \notin S)

From(s, i) == SubSeq(s, i, Len(s))

(***************************************************************************)
(* The match of the formula against the pattern of scaleDiceFormula:       *)
(* start, whitespace (group 1), digits (group 2), whitespace, d or D,      *)
(* whitespace, digits (group 3), any characters but line terminators       *)
(* (group 4), end.  The character classes are pairwise disjoint, so the    *)
(* greedy match is the only one.                                           *)
(***************************************************************************)
DiceMatch(f) ==
    LET a == ScanEnd(f, 1, Space)
        b == ScanEnd(f, a, Digit)
        c == ScanEnd(f, b, Space)
        hasD == c <= Len(f) /\ f[c] \in DChar
        e == IF hasD THEN ScanEnd(f, c + 1, Space) ELSE c
        g == IF hasD THEN ScanEnd(f, e, Digit) ELSE c
        prefix == b > a /\ hasD /\ g > e
    IN  [ prefix  |-> prefix,
          ok      |-> prefix /\ \A k \in g..Len(f) : f[k] \notin LineTerminator,
          leading |-> SubSeq(f, 1, a - 1),
          count   |-> SubSeq(f, a, b - 1),
          sides   |-> SubSeq(f, e, g - 1),
          rest    |-> From(f, g),
          countEnd |-> b,
          sidesAt  |-> e ]

(***************************************************************************)
(* JS values of the add argument: undefined, NaN or a number.              *)
(***************************************************************************)
Undefined == [tag |-> "undefined", v |-> 0]
NaN == [tag |-> "NaN", v |-> 0]
Num(n) == [tag |-> "number", v |-> n]
Falsy(x) == x.tag \in {"undefined", "NaN"} \/ x.v = 0

\* A slip on line 25: the template leaves out ${rest}.
ScaleDiceFormulaNoRest(f, a) ==
    IF Falsy(a) \/ (a.tag = "number" /\ a.v = 0) THEN f
    ELSE LET m == DiceMatch(f) IN
         IF m.ok
         THEN m.leading \o NumToStr(StrToNat(m.count) + a.v) \o <<"d">> \o m.sides
         ELSE f \o <<" ", "+", " ">> \o NumToStr(a.v)

\* A slip on line 16: the guard tests only for a missing add, so 0 falls through.
ScaleDiceFormulaNoZeroGuard(f, a) ==
    IF a.tag \in {"undefined", "NaN"} THEN f
    ELSE LET m == DiceMatch(f) IN
         IF m.ok
         THEN m.leading \o NumToStr(StrToNat(m.count) + a.v) \o <<"d">> \o m.sides \o m.rest
         ELSE f \o <<" ", "+", " ">> \o NumToStr(a.v)

\* scaleDiceFormula(formula, add)
ScaleDiceFormula(f, a) ==
    IF Falsy(a) \/ (a.tag = "number" /\ a.v = 0) THEN f
    ELSE LET m == DiceMatch(f) IN
         IF m.ok
         THEN LET newCount == StrToNat(m.count) + a.v
              IN  m.leading \o NumToStr(newCount) \o <<"d">> \o m.sides \o m.rest
         ELSE f \o <<" ", "+", " ">> \o NumToStr(a.v)

(***************************************************************************)
(* Items.  A damage part is [formula, type]; a group is [label, parts],    *)
(* parts being the stored indices.  A missing flags.rollgroups.config or   *)
(* config.groups reads as no groups everywhere (the ?. and ?? of lines     *)
(* 117-120, 300 and 332), so it is modelled as the empty list.             *)
(***************************************************************************)
PartValues == { <<"1d6", "fire">>, <<"1d4", "healing">>, <<"", "">> }
RollParts == { <<"1d6", "fire">>, <<"1d4", "healing">> }
Labels == {"", "L"}

SeqsUpTo(S, n) == UNION {[1..k -> S] : k \in 0..n}

\* Stored indices: in any order, repeats and stale positions (MaxParts) included.
IndexValues == 0..MaxParts

\* The lists of n groups that hold at most budget stored indices together.
RECURSIVE GroupSeqs(_, _, _)
GroupSeqs(n, budget, labels) ==
    IF n = 0 THEN {<<>>}
    ELSE UNION { { <<[label |-> l, parts |-> r]>> \o rest :
                     l \in labels, rest \in GroupSeqs(n - 1, budget - Len(r), labels) } :
                 r \in SeqsUpTo(IndexValues, budget) }

GroupLists(budget) == UNION { GroupSeqs(n, budget, {""}) : n \in 0..MaxGroups }

Range(s) == {s[k] : k \in 1..Len(s)}

\* config.groups?.[idx], undefined being reported as found = FALSE
GroupAt(groups, idx) ==
    IF idx.tag = "number" /\ idx.v \in 0..(Len(groups) - 1)
    THEN [found |-> TRUE, parts |-> groups[idx.v + 1].parts]
    ELSE [found |-> FALSE, parts |-> <<>>]

\* The reduce of lines 334-337 over parts[from..], i being the 0-based position.
RECURSIVE ReduceParts(_, _, _)
ReduceParts(parts, indices, i) ==
    IF i >= Len(parts) THEN <<>>
    ELSE (IF i \in indices THEN <<parts[i + 1]>> ELSE <<>>)
         \o ReduceParts(parts, indices, i + 1)

\* A slip in lines 333-337: the stored indices are walked instead of the parts.
ConstructPartsByIndex(it, idx) ==
    LET raw == GroupAt(it.groups, idx).parts
        ok == SelectSeq(raw, LAMBDA n : n \in 0..(Len(it.parts) - 1))
        group == [k \in 1..Len(ok) |-> it.parts[ok[k] + 1]]
    IN  [ok |-> group # <<>>, group |-> group, notes |-> IF group = <<>> THEN 1 ELSE 0]

\* constructParts(item, idx): [ok, group, notes]; ok = FALSE is the "return false"
ConstructParts(it, idx) ==
    LET raw == GroupAt(it.groups, idx).parts
        indices == Range(raw)            \* new Set(raw.map(Number)), raw holding numbers
        group == ReduceParts(it.parts, indices, 0)
    IN  [ok |-> group # <<>>, group |-> group, notes |-> IF group = <<>> THEN 1 ELSE 0]

\* The value of dataset.group as rollDamageFromChat resolves it (lines 271-272):
\* a missing attribute stays undefined, "" is Number("") = 0, other text stays text.
Missing == [tag |-> "undefined", v |-> 0]
Text == [tag |-> "text", v |-> 0]
EmptyString == [tag |-> "empty", v |-> 0]
ResolveDataGroup(g) == IF g.tag = "empty" THEN Num(0) ELSE g

NoRoll == [op |-> "none", idx |-> Missing, rolled |-> "none", parts |-> <<>>, notes |-> 0]

\* rollDamageFromChat(event): found is what findItem returned
RollDamageFromChat(it, found, g) ==
    LET idx == ResolveDataGroup(g)
        cp == ConstructParts(it, idx)
        base == [NoRoll EXCEPT !.op = "chat", !.idx = idx]
    IN  IF found = "ownerMissing" THEN [base EXCEPT !.notes = 1]
        ELSE IF found = "missing" THEN base
        ELSE IF ~cp.ok THEN [base EXCEPT !.notes = cp.notes]
        ELSE [base EXCEPT !.rolled = "clone", !.parts = cp.group]

\* A slip on line 301: the fallback to the plain roll is left out.
RollDamageGroupNoFallback(it, rollgroup) ==
    LET idx == IF rollgroup.tag = "undefined" THEN Num(0) ELSE rollgroup
        indices == GroupAt(it.groups, idx).parts
        cp == ConstructParts(it, idx)
        base == [NoRoll EXCEPT !.op = "group", !.idx = idx]
    IN  IF indices = <<>> THEN [base EXCEPT !.notes = 1]
        ELSE IF ~cp.ok THEN [base EXCEPT !.notes = cp.notes]
        ELSE [base EXCEPT !.rolled = "clone", !.parts = cp.group]

\* item.rollDamageGroup({rollgroup = 0, ...})
RollDamageGroup(it, rollgroup) ==
    LET idx == IF rollgroup.tag = "undefined" THEN Num(0) ELSE rollgroup
        indices == GroupAt(it.groups, idx).parts
        cp == ConstructParts(it, idx)
        base == [NoRoll EXCEPT !.op = "group", !.idx = idx]
    IN  IF it.groups = <<>> THEN [base EXCEPT !.rolled = "item", !.parts = it.parts]
        ELSE IF indices = <<>> THEN [base EXCEPT !.notes = 1]
        ELSE IF ~cp.ok THEN [base EXCEPT !.notes = cp.notes]
        ELSE [base EXCEPT !.rolled = "clone", !.parts = cp.group]

DataGroups == {Missing, Text, EmptyString} \cup {Num(n) : n \in (-1)..MaxGroups}
RollGroups == {Undefined, NaN} \cup {Num(n) : n \in (-1)..MaxGroups}

\* An item with no flags of this module, no save, no versatile damage.
PlainItem ==
    [ parts |-> <<>>, groups |-> <<>>, versatile |-> Undefined, bladeCantrip |-> FALSE,
      saves |-> <<>>, isVersatile |-> FALSE, isCantrip |-> FALSE,
      hasSave |-> FALSE, saveAbility |-> "", dc |-> Undefined ]

RollItems ==
    { [PlainItem EXCEPT !.parts = ps, !.groups = gs] :
        ps \in SeqsUpTo(RollParts, MaxParts), gs \in GroupLists(MaxStored) }

RollInit ==
    /\ item \in RollItems
    /\ roll = NoRoll

RollIdle == roll = NoRoll

ClickRollGroupButton ==
    /\ roll.op = "none"
    /\ \E found \in {"found", "missing", "ownerMissing"}, g \in DataGroups :
         roll' = RollDamageFromChat(item, found, g)
    /\ UNCHANGED item

CallRollDamageGroup ==
    /\ roll.op = "none"
    /\ \E g \in RollGroups : roll' = RollDamageGroup(item, g)
    /\ UNCHANGED item

RollNext ==
    \/ ClickRollGroupButton /\ UNCHANGED <<scaleVars, hookVars, dialogVars, quickVars>>
    \/ CallRollDamageGroup /\ UNCHANGED <<scaleVars, hookVars, dialogVars, quickVars>>

(***************************************************************************)
(* Chat cards.  The card is the list of the elements of its .card-buttons  *)
(* block; an element is [action, group, uuid, kind, label, ability, dc],   *)
(* the attributes an element lacks being "" (Missing for data-group).      *)
(***************************************************************************)
DamageTypes == {"fire"}                  \* CONFIG.DND5E.damageTypes
HealingTypes == {"healing"}              \* CONFIG.DND5E.healingTypes
Abilities == {"str", "dex"}              \* CONFIG.DND5E.abilities
AbilityKeys == Abilities \cup {"luck"}   \* keys a config may hold, known or not
ItemUuid == "Item.a"
DefaultDC == 10

El(action) ==
    [ action |-> action, group |-> Missing, uuid |-> "", kind |-> "", label |-> "",
      ability |-> "", dc |-> 0 ]

\* The position of the first element with one of the actions, 0 when there is none.
FirstWith(content, actions) ==
    IF \E i \in 1..Len(content) : content[i].action \in actions
    THEN CHOOSE i \in 1..Len(content) :
            /\ content[i].action \in actions
            /\ \A j \in 1..(i - 1) : content[j].action \notin actions
    ELSE 0

\* isNumeric(v) = !isNaN(Number(v)): Number(null) and Number("") are 0.
Null == [tag |-> "null", v |-> 0]
IsNumeric(x) == x.tag \in {"number", "null", "empty"}

\* String(config.versatile) as the data-group attribute: "null" is text.
ToAttr(x) == IF x.tag = "null" THEN Text ELSE x

ValidParts(it) == SelectSeq(it.parts, LAMBDA p : p[1] # "")

\* Lines 130-135: the types are looked up in validParts at the stored indices.
GroupKind(it, g) ==
    LET valid == ValidParts(it)
        TypeAt(t) == IF t \in 0..(Len(valid) - 1) THEN valid[t + 1][2] ELSE ""
        types == {TypeAt(g.parts[k]) : k \in 1..Len(g.parts)}
    IN  IF \A t \in types : t # "" /\ t \in DamageTypes THEN "damage"
        ELSE IF \A t \in types : t # "" /\ t \in HealingTypes THEN "healing"
        ELSE "mixed"

GroupButton(it, i) ==
    [ El("rollgroup-damage") EXCEPT
        !.group = Num(i - 1), !.uuid = ItemUuid,
        !.kind = GroupKind(it, it.groups[i]), !.label = it.groups[i].label ]

\* A slip on line 120: the test counts all damage parts, not the valid ones.
CreateDamageButtonsAllParts(it) ==
    IF ~(Len(it.groups) > 0 /\ Len(it.parts) > 1)
    THEN [ok |-> FALSE, buttons |-> <<>>]
    ELSE [ok |-> TRUE, buttons |-> [i \in 1..Len(it.groups) |-> GroupButton(it, i)]]

\* createDamageButtons(item): ok = FALSE is the null
CreateDamageButtons(it) ==
    IF ~(Len(it.groups) > 0 /\ Len(ValidParts(it)) > 1)
    THEN [ok |-> FALSE, buttons |-> <<>>]
    ELSE [ok |-> TRUE, buttons |-> [i \in 1..Len(it.groups) |-> GroupButton(it, i)]]

SaveDC(it) == IF it.dc.tag = "number" THEN it.dc.v ELSE DefaultDC

SaveButton(it, abi) ==
    [El("save") EXCEPT !.ability = abi, !.dc = SaveDC(it)]

\* A slip on line 160: the item's own save ability is not left out.
CreateSaveButtonsKeepOwn(it) ==
    LET saves == SelectSeq(it.saves, LAMBDA abi : abi \in Abilities)
    IN  IF ~it.hasSave \/ saves = <<>>
        THEN [ok |-> FALSE, buttons |-> <<>>]
        ELSE [ok |-> TRUE, buttons |-> [k \in 1..Len(saves) |-> SaveButton(it, saves[k])]]

\* createSaveButtons(item): ok = FALSE is the null
CreateSaveButtons(it) ==
    LET saves == SelectSeq(it.saves,
                           LAMBDA abi : abi # it.saveAbility /\ abi \in Abilities)
    IN  IF ~it.hasSave \/ saves = <<>>
        THEN [ok |-> FALSE, buttons |-> <<>>]
        ELSE [ok |-> TRUE, buttons |-> [k \in 1..Len(saves) |-> SaveButton(it, saves[k])]]

HasDamage(it) == Len(it.parts) > 0       \* item.hasDamage of the host system

BladeCantripButtons ==
    << El("hr"), El("rollgroup-bladecantrip-attack"), El("rollgroup-bladecantrip-damage") >>

\* A slip on lines 64-65: the group buttons are inserted and the damage button stays.
ReplaceDamageButtonKeepDamage(it, content) ==
    LET d == FirstWith(content, {"damage"})
        buttons == CreateDamageButtons(it)
    IN  IF d > 0 /\ buttons.ok
        THEN SubSeq(content, 1, d) \o buttons.buttons \o From(content, d + 1)
        ELSE content

\* Lines 59-66: the damage button gives way to the group buttons.
ReplaceDamageButton(it, content) ==
    LET d == FirstWith(content, {"damage"})
        buttons == CreateDamageButtons(it)
    IN  IF d > 0 /\ buttons.ok
        THEN SubSeq(content, 1, d - 1) \o buttons.buttons \o From(content, d + 1)
        ELSE content

\* Lines 68-77: the Versatile button becomes a roll of the versatile group.  No
\* element of a card carries data-versatile, so the second selector finds nothing.
AdjustVersatile(it, received, content) ==
    LET v == FirstWith(content, {"versatile"})
    IN  IF /\ FirstWith(received, {"damage"}) > 0
           /\ CreateDamageButtons(it).ok
           /\ IsNumeric(it.versatile) /\ it.isVersatile
           /\ v > 0
        THEN [content EXCEPT ![v] = [@ EXCEPT !.action = "rollgroup-damage-versatile",
                                              !.group = ToAttr(it.versatile),
                                              !.uuid = ItemUuid]]
        ELSE content

\* Lines 79-91: the blade cantrip buttons are appended.
AppendBladeCantrip(it, received, content) ==
    IF /\ FirstWith(received, {"damage"}) > 0
       /\ it.bladeCantrip /\ it.isCantrip /\ HasDamage(it)
    THEN content \o BladeCantripButtons
    ELSE content

\* Lines 94-103: the extra save buttons go after the first save button.
InsertSaveButtons(it, content) ==
    LET saveButtons == CreateSaveButtons(it)
        s == FirstWith(content, {"save"})
    IN  IF saveButtons.ok /\ s > 0
        THEN SubSeq(content, 1, s) \o saveButtons.buttons \o From(content, s + 1)
        ELSE content

\* The el.innerHTML that line 105 stores, when nothing throws.
CardContent(it, content) ==
    InsertSaveButtons(it,
        AppendBladeCantrip(it, content,
            AdjustVersatile(it, content, ReplaceDamageButton(it, content))))

(***************************************************************************)
(* The hook handlers.  fault says that a statement of the try block threw  *)
(* (a host API that fails, a malformed argument); receiver is the this of  *)
(* the call, which the host chooses: setup hands over bare functions, so   *)
(* it is undefined or an object of the host's, never Module.               *)
(***************************************************************************)
Receivers == {"undefined", "hostObject"}

\* The catch block of lines 106-108 evaluates this.ID before it logs.
CatchWithThis(receiver) ==
    IF receiver = "undefined"
    THEN [logged |-> FALSE, escaped |-> TRUE]     \* TypeError inside the catch
    ELSE [logged |-> TRUE, escaped |-> FALSE]

\* The catch blocks of lines 225-227 and 390-392 name Module.ID.
CatchWithModule == [logged |-> TRUE, escaped |-> FALSE]

Ran(name, fault, caught) ==
    [ name |-> name, threw |-> fault,
      logged |-> fault /\ caught.logged, escaped |-> fault /\ caught.escaped ]

\* manageCardButtons(item, data), registered on dnd5e.preDisplayCard
ManageCardButtons ==
    /\ hook.name = "none"
    /\ \E fault \in BOOLEAN, receiver \in Receivers :
         /\ data' = [data EXCEPT !.content =
                        IF fault THEN data.received ELSE CardContent(item, data.received)]
         /\ hook' = Ran("manageCardButtons", fault, CatchWithThis(receiver))
    /\ UNCHANGED <<item, sheet, config>>

\* The root element of lines 188-196, FALSE when the handler returns at line 198.
HasRoot(html) == html \in {"element", "jquery", "array", "queryable"}

Link(class, editable) == [class |-> class, listener |-> editable]

\* The links lines 200-224 put into the sheet.
ConfigLinks(sh) ==
    (IF sh.addDamage THEN <<Link("config-button", sh.isEditable)>> ELSE <<>>)
    \o (IF sh.saveScaling THEN <<Link("save-config-button", sh.isEditable)>> ELSE <<>>)

\* createConfigButton(sheet, html), registered on renderItemSheet
CreateConfigButton ==
    /\ hook.name = "none"
    /\ \E fault \in BOOLEAN :
         /\ sheet' = [sheet EXCEPT !.links =
                         IF fault \/ ~HasRoot(sheet.html) THEN <<>> ELSE ConfigLinks(sheet)]
         /\ hook' = Ran("createConfigButton", fault, CatchWithModule)
    /\ UNCHANGED <<item, data, config>>

\* Lines 379-388: the title and the flavor of the roll.  The derived damage labels
\* and item.labels.damageTypes are the host's; they follow the types of the parts.
DamageFlavor(it) ==
    LET labels == {it.parts[k][2] : k \in 1..Len(it.parts)}
        isTemp == labels = {"temphp"}
        title == IF \A t \in labels : t \in HealingTypes \cup {"temphp"}
                 THEN "Healing" ELSE "DamageRoll"
    IN  [ title |-> title,
          flavor |-> IF isTemp THEN "temp"
                     ELSE IF labels \ {""} # {} THEN "types" ELSE "title" ]

\* variantDamageLabels(item, config), registered on dnd5e.preRollDamage
VariantDamageLabels ==
    /\ hook.name = "none"
    /\ \E fault \in BOOLEAN, present \in BOOLEAN :
         /\ config' = IF fault \/ ~present THEN config ELSE DamageFlavor(item)
         /\ hook' = Ran("variantDamageLabels", fault /\ present, CatchWithModule)
    /\ UNCHANGED <<item, data, sheet>>

HookNext ==
    \/ ManageCardButtons /\ UNCHANGED <<scaleVars, rollVars, dialogVars, quickVars>>
    \/ CreateConfigButton /\ UNCHANGED <<scaleVars, rollVars, dialogVars, quickVars>>
    \/ VariantDamageLabels /\ UNCHANGED <<scaleVars, rollVars, dialogVars, quickVars>>

\* The cards of the host: the buttons present, in the order of the host's template.
HostButtons == <<"attack", "damage", "versatile", "save">>
Cards(actions) ==
    { [k \in 1..Len(s) |-> El(s[k])] :
        s \in { SelectSeq(HostButtons, LAMBDA a : a \in S) : S \in SUBSET actions } }

TwoParts == << <<"1d6", "fire">>, <<"1d4", "healing">> >>
TempParts == << <<"1d4", "temphp">> >>
TwoGroups == << [label |-> "L", parts |-> <<0, 1>>], [label |-> "", parts |-> <<>>] >>

\* Items that vary in their damage parts and groups.
GroupedItems ==
    { [PlainItem EXCEPT !.parts = ps, !.groups = gs] :
        ps \in SeqsUpTo(PartValues, MaxParts), gs \in GroupLists(MaxStored - 1) }

\* Items that vary in their saving throw and their configured extra saves.
SaveItems ==
    { [PlainItem EXCEPT !.parts = TwoParts, !.groups = gs, !.hasSave = hs,
                        !.saveAbility = sa, !.saves = sv, !.dc = dc] :
        gs \in {<<>>, TwoGroups}, hs \in BOOLEAN, sa \in {"", "str"},
        sv \in SeqsUpTo(AbilityKeys, MaxSaves), dc \in {Undefined, Num(15)} }

\* Items that vary in their versatile group and their blade cantrip flag.
VersatileItems ==
    { [PlainItem EXCEPT !.parts = ps, !.groups = gs, !.versatile = v,
                        !.isVersatile = iv, !.bladeCantrip = bc, !.isCantrip = ic] :
        ps \in {<<>>, TwoParts, TempParts}, gs \in {<<>>, TwoGroups},
        v \in {Undefined, Null, EmptyString} \cup {Num(n) : n \in 0..MaxGroups},
        iv \in BOOLEAN, bc \in BOOLEAN, ic \in BOOLEAN }

Sheets ==
    [ html : {"null", "element", "jquery", "array", "queryable", "other"},
      addDamage : BOOLEAN, saveScaling : BOOLEAN, isEditable : BOOLEAN, links : {<<>>} ]

NoHook == [name |-> "none", threw |-> FALSE, logged |-> FALSE, escaped |-> FALSE]
NoData == [received |-> <<>>, content |-> <<>>]
NoSheet ==
    [ html |-> "null", addDamage |-> FALSE, saveScaling |-> FALSE, isEditable |-> FALSE,
      links |-> <<>> ]
NoConfig == [title |-> "", flavor |-> ""]

Received(c) == [received |-> c, content |-> c]

HookInit ==
    /\ \/ item \in GroupedItems /\ data \in {Received(c) : c \in Cards({"damage", "save"})}
                               /\ sheet = NoSheet
       \/ item \in SaveItems /\ data \in {Received(c) : c \in Cards({"damage", "save"})}
                            /\ sheet = NoSheet
       \/ item \in VersatileItems /\ data \in {Received(c) : c \in Cards(Range(HostButtons))}
                                 /\ sheet = NoSheet
       \/ item = PlainItem /\ data = NoData /\ sheet \in Sheets
    /\ config = NoConfig
    /\ hook = NoHook

HookIdle ==
    /\ data = NoData
    /\ sheet = NoSheet
    /\ config = NoConfig
    /\ hook = NoHook

(***************************************************************************)
(* The group configuration dialog (GroupConfig).  setFlag and the form's   *)
(* submission send an update to the host and return; the host applies the  *)
(* updates later, in the order sent, and renders the dialog again from the *)
(* document, so every handler reads the document as last applied.          *)
(***************************************************************************)
GroupPlaceholder == "Group"              \* localize("ROLLGROUPS.GroupPlaceholder")

\* The numbers of S in ascending order: the integer keys of an object.
RECURSIVE Ascending(_)
Ascending(S) ==
    IF S = {} THEN <<>>
    ELSE LET m == CHOOSE x \in S : \A y \in S : x <= y
         IN  <<m>> \o Ascending(S \ {m})

\* A slip on line 458: the box of a part is checked when the next position is stored.
PrepareContextShifted(it) ==
    [ g \in 1..Len(it.groups) |->
        [ label |-> it.groups[g].label,
          rows |-> [ i \in 0..(Len(it.parts) - 1) |->
                        (i + 1) \in Range(it.groups[g].parts) ] ] ]

\* _prepareContext, lines 449-462: per group its label and, per damage part of the
\* document, whether the box of that part is checked.
PrepareContext(it) ==
    [ g \in 1..Len(it.groups) |->
        [ label |-> it.groups[g].label,
          rows |-> [ i \in 0..(Len(it.parts) - 1) |-> i \in Range(it.groups[g].parts) ] ] ]

\* _prepareContext, lines 467-478: the versatile select, absent or [value].
VersatileField(it) ==
    IF ~(HasDamage(it) /\ it.isVersatile) THEN [shown |-> FALSE, value |-> Null]
    ELSE LET v == it.versatile
             n == IF v.tag = "number" THEN v.v ELSE 0     \* Number(null), Number("")
         IN  [ shown |-> TRUE,
               value |-> IF IsNumeric(v) /\ n < Len(it.groups) THEN Num(n) ELSE Null ]

\* A slip on line 499: the keys are stored as counted from 1.
PrepareSubmitDataOneBased(form) ==
    [ g \in 1..Len(form) |->
        [ label |-> IF form[g].label = "" THEN GroupPlaceholder ELSE form[g].label,
          parts |-> Ascending({i + 1 : i \in {j \in DOMAIN form[g].rows : form[g].rows[j]}}) ] ]

\* _prepareSubmitData, lines 497-501: the groups a form submits.
PrepareSubmitData(form) ==
    [ g \in 1..Len(form) |->
        [ label |-> IF form[g].label = "" THEN GroupPlaceholder ELSE form[g].label,
          parts |-> Ascending({i \in DOMAIN form[g].rows : form[g].rows[i]}) ] ]

\* An update of the document's flags, named after the handler that sent it (add,
\* delete, or the kind of change a submission carries): the groups, and the
\* versatile group if sent.
Update(op, groups, versatile) == [op |-> op, groups |-> groups, versatile |-> versatile]
Keep == [tag |-> "keep", v |-> 0]

CanAct == ops < MaxOps /\ Len(pending) < MaxPending

NoClicks == [adds |-> 0, deletes |-> 0]

Send(u) ==
    /\ pending' = Append(pending, u)
    /\ ops' = ops + 1
    /\ clicks' = [ adds |-> clicks.adds + (IF u.op = "add" THEN 1 ELSE 0),
                   deletes |-> clicks.deletes + (IF u.op = "delete" THEN 1 ELSE 0) ]
    /\ UNCHANGED <<item, longest>>

\* _onAddGroup, lines 506-510
OnAddGroup ==
    /\ CanAct
    /\ Len(item.groups) < MaxGroups
    /\ Send(Update("add", Append(item.groups, [label |-> "", parts |-> <<>>]), Keep))

\* groups.splice(idx, 1)
Splice(groups, idx) ==
    IF idx \in 0..(Len(groups) - 1)
    THEN SubSeq(groups, 1, idx) \o From(groups, idx + 2)
    ELSE groups

\* _onDeleteGroup, lines 512-517, on the delete control of a rendered group
OnDeleteGroup ==
    /\ CanAct
    /\ \E idx \in 0..(Len(item.groups) - 1) :
         Send(Update("delete", Splice(item.groups, idx), Keep))

\* What the user changes in the rendered form before it submits itself
\* (submitOnChange): nothing, one check box, one label or the versatile select.
Changed(form, change) ==
    CASE change.kind = "box" ->
           [form EXCEPT ![change.g].rows[change.i] = ~@]
      [] change.kind = "label" ->
           [form EXCEPT ![change.g].label = change.text]
      [] OTHER -> form

Changes(it) ==
    {[kind |-> "none", g |-> 0, i |-> 0, text |-> "", v |-> Null]}
    \cup {[kind |-> "box", g |-> g, i |-> i, text |-> "", v |-> Null] :
            g \in 1..Len(it.groups), i \in 0..(Len(it.parts) - 1)}
    \cup {[kind |-> "label", g |-> g, i |-> 0, text |-> t, v |-> Null] :
            g \in 1..Len(it.groups), t \in Labels}
    \cup {[kind |-> "versatile", g |-> 0, i |-> 0, text |-> "", v |-> v] :
            v \in IF VersatileField(it).shown
                  THEN {Null} \cup {Num(n) : n \in 0..(Len(it.groups) - 1)} ELSE {}}

\* The form submission: _prepareSubmitData and the update of the document.
OnSubmit ==
    /\ CanAct
    /\ \E change \in Changes(item) :
         LET field == VersatileField(item)
             sent == IF ~field.shown THEN Keep
                     ELSE IF change.kind = "versatile" THEN change.v ELSE field.value
         IN  Send(Update(change.kind,
                         PrepareSubmitData(Changed(PrepareContext(item), change)), sent))

\* The host applies the oldest update in flight.
ApplyUpdate ==
    /\ pending # <<>>
    /\ item' = [item EXCEPT !.groups = Head(pending).groups,
                            !.versatile = IF Head(pending).versatile = Keep
                                          THEN @ ELSE Head(pending).versatile]
    /\ pending' = Tail(pending)
    /\ UNCHANGED <<ops, longest, clicks>>

\* The dialog reads the positions of the damage parts, never their content.
DialogParts == { <<"1d6", "fire">> }

\* The owner adds a damage part on the item sheet.
HostAddPart ==
    /\ ops < MaxOps
    /\ Len(item.parts) < MaxParts
    /\ \E p \in DialogParts : item' = [item EXCEPT !.parts = Append(@, p)]
    /\ longest' = IF Len(item.parts) + 1 > longest THEN Len(item.parts) + 1 ELSE longest
    /\ ops' = ops + 1
    /\ UNCHANGED <<pending, clicks>>

\* The owner removes a damage part on the item sheet.
HostRemovePart ==
    /\ ops < MaxOps
    /\ \E i \in 0..(Len(item.parts) - 1) :
         item' = [item EXCEPT !.parts = Splice(@, i)]
    /\ ops' = ops + 1
    /\ UNCHANGED <<pending, longest, clicks>>

DialogNext ==
    \/ OnAddGroup /\ UNCHANGED <<scaleVars, rollVars, hookVars, quickVars>>
    \/ OnDeleteGroup /\ UNCHANGED <<scaleVars, rollVars, hookVars, quickVars>>
    \/ OnSubmit /\ UNCHANGED <<scaleVars, rollVars, hookVars, quickVars>>
    \/ ApplyUpdate /\ UNCHANGED <<scaleVars, rollVars, hookVars, quickVars>>
    \/ HostAddPart /\ UNCHANGED <<scaleVars, rollVars, hookVars, quickVars>>
    \/ HostRemovePart /\ UNCHANGED <<scaleVars, rollVars, hookVars, quickVars>>

DialogInit ==
    /\ item \in { [PlainItem EXCEPT !.parts = ps, !.isVersatile = iv] :
                    ps \in SeqsUpTo(DialogParts, MaxParts), iv \in BOOLEAN }
    /\ pending = <<>>
    /\ ops = 0
    /\ longest = Len(item.parts)
    /\ clicks = NoClicks

DialogIdle ==
    /\ pending = <<>>
    /\ ops = 0
    /\ longest = 0
    /\ clicks = NoClicks

(***************************************************************************)
(* The weapon picker's quick roll (WeaponPicker._onQuickRoll).  A click    *)
(* calls the weapon's rollAttack and waits for it; what follows the await  *)
(* runs when the host settles the attack roll, in one piece: close,        *)
(* _scaleCantripDamage and rollDamageGroup hold no await of their own.     *)
(***************************************************************************)
NoConfigs == [parts |-> <<>>, type |-> ""]

\* _scaleCantripDamage(), lines 637-646; a level that is no number gives add = NaN
ScaleCantripDamage(pk) ==
    IF pk.cantrip = <<>> THEN [parts |-> <<>>, type |-> "null"]
    ELSE LET part == pk.cantrip[1]
             a == IF pk.level.tag = "number" THEN Num((pk.level.v + 1) \div 6) ELSE NaN
         IN  [parts |-> <<ScaleDiceFormula(part[1], a)>>, type |-> part[2]]

Call(name, i, w) ==
    [call |-> name, by |-> i, weapon |-> w, parts |-> <<>>, configs |-> NoConfigs]

\* Lines 609-610, run once the attack roll has come back truthy.
AfterAttack(pk, i, w) ==
    LET rolled == RollDamageGroup(pk.weapons[w], Undefined)
        configs == ScaleCantripDamage(pk)
    IN  << Call("close", i, w),
           IF rolled.rolled = "none"
           THEN Call("notify", i, w)
           ELSE [Call("rollDamage", i, w) EXCEPT !.parts = rolled.parts,
                                                 !.configs = configs] >>

\* A slip on lines 608-609: the result of the attack roll is not looked at.
SettledIgnoringResult(pk, i, w, result) ==
    IF w = 0 \/ result = "rejected" THEN <<>> ELSE AfterAttack(pk, i, w)

\* What _onQuickRoll does after line 607, given what the await gave.
Settled(pk, i, w, result) ==
    IF w = 0 \/ result # "roll" THEN <<>> ELSE AfterAttack(pk, i, w)

\* A click on a weapon's quick-roll control: lines 606-607 up to the await.  The
\* weapon 0 is an item id the actor no longer holds.
OnQuickRoll ==
    /\ Len(quick) < MaxClicks
    /\ \E w \in 0..Len(picker.weapons) :
         /\ quick' = Append(quick, [weapon |-> w, pc |-> "attack", attack |-> "pending"])
         /\ calls' = IF w = 0 THEN calls
                     ELSE Append(calls, Call("rollAttack", Len(quick) + 1, w))
    /\ UNCHANGED <<item, picker>>

\* The host settles the attack roll of a click: a roll, nothing (the roll dialog
\* was dismissed) or a rejection.
AttackSettles ==
    \E i \in 1..Len(quick) :
        /\ quick[i].pc = "attack"
        /\ \E result \in IF quick[i].weapon = 0 THEN {"none"}
                         ELSE {"roll", "none", "rejected"} :
             /\ quick' = [quick EXCEPT ![i].pc = "done", ![i].attack = result]
             /\ calls' = calls \o Settled(picker, i, quick[i].weapon, result)
        /\ UNCHANGED <<item, picker>>

QuickNext ==
    \/ OnQuickRoll /\ UNCHANGED <<scaleVars, rollVars, hookVars, dialogVars>>
    \/ AttackSettles /\ UNCHANGED <<scaleVars, rollVars, hookVars, dialogVars>>

WeaponItems ==
    { [PlainItem EXCEPT !.parts = TwoParts, !.groups = gs] :
        gs \in { <<>>, <<[label |-> "", parts |-> <<1>>]>>, <<[label |-> "", parts |-> <<>>]>> } }

Cantrips ==
    { <<>>, << << <<"1", "d", "8">>, "fire" >> >>, << << <<"8">>, "fire" >> >> }

Levels == {Num(1), Num(5), Num(11), NaN}

QuickInit ==
    /\ picker \in [level : Levels, cantrip : Cantrips, weapons : [1..2 -> WeaponItems]]
    /\ quick = <<>>
    /\ calls = <<>>

QuickIdle ==
    /\ picker = [level |-> Num(1), cantrip |-> <<>>, weapons |-> <<>>]
    /\ quick = <<>>
    /\ calls = <<>>

Strings(n) == UNION {[1..k -> Char] : k \in 0..n}
Adds == {Undefined, NaN} \cup {Num(n) : n \in (-1)..MaxAdd}

ScaleInit ==
    /\ formula \in Strings(MaxLen)
    /\ add \in Adds
    /\ scaled = [done |-> FALSE, out |-> <<>>]

CallScale ==
    /\ ~scaled.done
    /\ scaled' = [done |-> TRUE, out |-> ScaleDiceFormula(formula, add)]
    /\ UNCHANGED <<formula, add>>

ScaleIdle ==
    /\ formula = <<>>
    /\ add = Undefined
    /\ scaled = [done |-> FALSE, out |-> <<>>]

ScaleNext == CallScale /\ UNCHANGED <<item, rollVars, hookVars, dialogVars, quickVars>>

(***************************************************************************)
(* The specifications: one per part of the program, the variables of the   *)
(* other parts staying at rest.                                            *)
(***************************************************************************)
InitScale == ScaleInit /\ item = PlainItem /\ RollIdle /\ HookIdle /\ DialogIdle /\ QuickIdle
SpecScale == InitScale /\ [][ScaleNext]_vars

InitRoll == RollInit /\ ScaleIdle /\ HookIdle /\ DialogIdle /\ QuickIdle
SpecRoll == InitRoll /\ [][RollNext]_vars

InitHooks == HookInit /\ ScaleIdle /\ RollIdle /\ DialogIdle /\ QuickIdle
SpecHooks == InitHooks /\ [][HookNext]_vars

InitQuick == QuickInit /\ item = PlainItem /\ ScaleIdle /\ RollIdle /\ HookIdle /\ DialogIdle
SpecQuick == InitQuick /\ [][QuickNext]_vars

Init == DialogInit /\ ScaleIdle /\ RollIdle /\ HookIdle /\ QuickIdle
Spec == Init /\ [][DialogNext]_vars

\* The form submission on its own, from any stored configuration: the groups may
\* hold their indices in any order, repeated or stale, as constructParts allows.
SubmitItems ==
    { [PlainItem EXCEPT !.parts = ps, !.groups = gs] :
        ps \in SeqsUpTo(DialogParts, MaxParts), gs \in GroupLists(MaxStored) }

SubmitNext ==
    \/ OnSubmit /\ UNCHANGED <<scaleVars, rollVars, hookVars, quickVars>>
    \/ ApplyUpdate /\ UNCHANGED <<scaleVars, rollVars, hookVars, quickVars>>

InitSubmit ==
    /\ item \in SubmitItems
    /\ pending = <<>> /\ longest = Len(item.parts) /\ clicks = NoClicks
    /\ ops = MaxOps - 1                \* one submission is followed
    /\ ScaleIdle /\ RollIdle /\ HookIdle /\ QuickIdle
SpecSubmit == InitSubmit /\ [][SubmitNext]_vars

(***************************************************************************)
(* C2, as stated: with a non-zero add, a formula that begins with a dice   *)
(* term comes back with only the dice count replaced by N + add, all the   *)
(* text after the count being kept as it was.                              *)
(***************************************************************************)
C2_OnlyCountChanged ==
    LET m == DiceMatch(formula) IN
    (scaled.done /\ ~Falsy(add) /\ m.prefix) =>
        scaled.out = m.leading \o NumToStr(StrToNat(m.count) + add.v)
                               \o From(formula, m.countEnd)

(***************************************************************************)
(* C2, amended: when the whole pattern matches, the result is the leading  *)
(* whitespace, N + add in decimal, a lower-case d, and then the sides and  *)
(* everything after them exactly as in the formula (whitespace around the  *)
(* d is dropped); a formula whose text after the dice term holds a line    *)
(* terminator gets the offset appended instead.                            *)
(***************************************************************************)
C2_CountScaledSidesRestKept ==
    LET m == DiceMatch(formula)
        out == scaled.out
        kept == From(formula, m.sidesAt)
        mid == SubSeq(out, Len(m.leading) + 1, Len(out) - Len(kept))
    IN  (scaled.done /\ ~Falsy(add) /\ m.prefix) =>
            IF m.ok
            THEN /\ Len(out) >= Len(m.leading) + Len(kept) + 2
                 /\ SubSeq(out, 1, Len(m.leading)) = m.leading
                 /\ From(out, Len(out) - Len(kept) + 1) = kept
                 /\ mid = NumToStr(StrToNat(m.count) + add.v) \o <<"d">>
            ELSE out = formula \o <<" ", "+", " ">> \o NumToStr(add.v)

\* "1d8+2" with an increment of 1 has become "2d8+2".
C2_Witness ==
    /\ scaled.done
    /\ formula = <<"1", "d", "8", "+", "2">>
    /\ add = Num(1)
    /\ scaled.out = <<"2", "d", "8", "+", "2">>

(***************************************************************************)
(* C1: the damage parts of the clone that is rolled are the item's parts   *)
(* at the positions stored for the group, each once and in the order of    *)
(* the item's list, whatever the order or repetition of the stored         *)
(* indices.                                                                *)
(***************************************************************************)
Selected(it, idx) ==
    {i \in 0..(Len(it.parts) - 1) : i \in Range(GroupAt(it.groups, idx).parts)}

NthOf(S, k) == CHOOSE i \in S : Cardinality({j \in S : j < i}) = k - 1

C1_RolledPartsAreSelected ==
    LET sel == Selected(item, roll.idx) IN
    roll.rolled = "clone" =>
        /\ Len(roll.parts) = Cardinality(sel)
        /\ \A k \in 1..Len(roll.parts) : roll.parts[k] = item.parts[NthOf(sel, k) + 1]

\* The second group, storing 2 and then 0, has been rolled from the chat card.
C1_Witness ==
    /\ roll.op = "chat" /\ roll.rolled = "clone" /\ roll.idx = Num(1)
    /\ Len(item.groups) = 2 /\ item.groups[2].parts = <<2, 0>>
    /\ item.parts = << <<"1d4", "healing">>, <<"1d6", "fire">>, <<"1d6", "fire">> >>
    /\ roll.parts = << <<"1d4", "healing">>, <<"1d6", "fire">> >>

(***************************************************************************)
(* C4, as stated: a roll request that finds no groups, no group at the     *)
(* requested index, a group without parts or indices that select no        *)
(* existing part never calls rollDamage.                                   *)
(***************************************************************************)
EmptyConfiguration(it, idx) ==
    \/ it.groups = <<>>
    \/ ~GroupAt(it.groups, idx).found
    \/ GroupAt(it.groups, idx).parts = <<>>
    \/ Selected(it, idx) = {}

C4_EmptyNeverRolls ==
    (roll.op # "none" /\ EmptyConfiguration(item, roll.idx)) => roll.rolled = "none"

(***************************************************************************)
(* C4, amended: such a request rolls nothing and shows at most one error   *)
(* notification, except that rollDamageGroup on an item without any        *)
(* configured group falls back to the item's own rollDamage with all of    *)
(* its damage parts.                                                       *)
(***************************************************************************)
C4_EmptyRollsOnlyAsFallback ==
    (roll.op # "none" /\ EmptyConfiguration(item, roll.idx)) =>
        IF roll.op = "group" /\ item.groups = <<>>
        THEN roll.rolled = "item" /\ roll.parts = item.parts /\ roll.notes = 0
        ELSE roll.rolled = "none" /\ roll.notes \in {0, 1}

\* rollDamageGroup found a group whose only index is stale and notified.
C4_Witness ==
    /\ roll.op = "group" /\ roll.idx = Num(0)
    /\ Len(item.groups) = 1 /\ item.groups[1].parts = <<MaxParts>>
    /\ roll.rolled = "none" /\ roll.notes = 1

(***************************************************************************)
(* C3: with a non-zero add, a formula that does not begin with a dice term *)
(* comes back as the formula followed by " + add"; with add 0 or missing   *)
(* every formula comes back unchanged.                                     *)
(***************************************************************************)
C3_AppendOrUnchanged ==
    LET out == scaled.out IN
    scaled.done =>
        /\ Falsy(add) => out = formula
        /\ (~Falsy(add) /\ ~DiceMatch(formula).prefix) =>
              /\ SubSeq(out, 1, Len(formula)) = formula
              /\ From(out, Len(formula) + 1) = <<" ", "+", " ">> \o NumToStr(add.v)

\* "+8" with an offset of -1 has become "+8 + -1", and "1d8" with 0 stayed.
C3_Witness ==
    /\ scaled.done
    /\ \/ (formula = <<"+", "8">> /\ add = Num(-1)
            /\ scaled.out = <<"+", "8", " ", "+", " ", "-", "1">>)
       \/ (formula = <<"1", "d", "8">> /\ add = Num(0) /\ scaled.out = formula)
(***************************************************************************)
(* C5: an exception raised in the body of manageCardButtons,               *)
(* createConfigButton or variantDamageLabels, called the way setup         *)
(* registered them, is caught and logged inside the handler, none reaches  *)
(* the hook dispatcher, and manageCardButtons leaves data.content as       *)
(* received.                                                               *)
(***************************************************************************)
C5_ExceptionsCaughtAndLogged ==
    hook.threw =>
        /\ hook.logged
        /\ ~hook.escaped
        /\ hook.name = "manageCardButtons" => data.content = data.received

(***************************************************************************)
(* C7: createDamageButtons returns null exactly when the item has no       *)
(* group or at most one damage part with a non-empty formula; otherwise    *)
(* one button per group, in group order, the i-th with the action          *)
(* rollgroup-damage, data-group i and the item's uuid, groups without      *)
(* parts included.                                                         *)
(***************************************************************************)
NonEmptyFormulas(it) == Cardinality({k \in 1..Len(it.parts) : it.parts[k][1] # ""})

C7_OneButtonPerGroup ==
    LET made == CreateDamageButtons(item) IN
    /\ ~made.ok <=> (Len(item.groups) = 0 \/ NonEmptyFormulas(item) <= 1)
    /\ made.ok =>
         /\ Len(made.buttons) = Len(item.groups)
         /\ \A i \in 1..Len(item.groups) :
              /\ made.buttons[i].action = "rollgroup-damage"
              /\ made.buttons[i].group = Num(i - 1)
              /\ made.buttons[i].uuid = ItemUuid

\* A card shows the button of a second group that has no parts.
C7_Witness ==
    /\ hook.name = "manageCardButtons" /\ ~hook.threw
    /\ Len(item.groups) = 2 /\ item.groups[2].parts = <<>>
    /\ \E k \in 1..Len(data.content) :
         data.content[k].action = "rollgroup-damage" /\ data.content[k].group = Num(1)

(***************************************************************************)
(* C8: for a card with the host's damage button, after manageCardButtons   *)
(* has run to its end the card holds either that button or the group       *)
(* buttons, never both and never neither: the damage button is removed     *)
(* exactly when createDamageButtons returns buttons, which then stand at   *)
(* its position in group order.                                            *)
(***************************************************************************)
Count(content, action) ==
    Cardinality({k \in 1..Len(content) : content[k].action = action})

C8_DamageOrGroupButtons ==
    LET d == FirstWith(data.received, {"damage"})
        made == CreateDamageButtons(item)
        n == Len(item.groups)
    IN  (hook.name = "manageCardButtons" /\ ~hook.threw /\ d > 0) =>
          /\ (Count(data.content, "damage") = 0) # (Count(data.content, "rollgroup-damage") = 0)
          /\ Count(data.content, "damage") = 0 <=> made.ok
          /\ made.ok =>
               /\ Count(data.content, "rollgroup-damage") = n
               /\ SubSeq(data.content, 1, d - 1) = SubSeq(data.received, 1, d - 1)
               /\ \A k \in 1..n :
                    /\ data.content[d + k - 1].action = "rollgroup-damage"
                    /\ data.content[d + k - 1].group = Num(k - 1)
          /\ ~made.ok => data.content[d] = data.received[d]

\* The damage button of a card has given way to the buttons of two groups.
C8_Witness ==
    /\ hook.name = "manageCardButtons" /\ ~hook.threw
    /\ FirstWith(data.received, {"damage"}) > 0
    /\ Count(data.content, "damage") = 0
    /\ Count(data.content, "rollgroup-damage") = 2

(***************************************************************************)
(* C9: createSaveButtons returns null for an item without a saving throw   *)
(* or without a configured key that is a known ability other than the      *)
(* item's own; otherwise one button per such key, in configured order,     *)
(* each with the item's save DC; manageCardButtons puts them directly      *)
(* after the card's save button, and nowhere when the card has none.       *)
(***************************************************************************)
ExtraSavePositions(it) ==
    {k \in 1..Len(it.saves) : it.saves[k] \in Abilities /\ it.saves[k] # it.saveAbility}

ExtraSaves(content) == {k \in 1..Len(content) : content[k].ability # ""}

C9_ExtraSaveButtons ==
    LET made == CreateSaveButtons(item)
        pos == ExtraSavePositions(item)
        s == FirstWith(data.content, {"save"})
    IN  /\ made.ok <=> (item.hasSave /\ pos # {})
        /\ made.ok =>
             /\ Len(made.buttons) = Cardinality(pos)
             /\ \A k \in 1..Len(made.buttons) :
                  /\ made.buttons[k].action = "save"
                  /\ made.buttons[k].ability = item.saves[NthOf(pos, k)]
                  /\ item.dc.tag = "number" => made.buttons[k].dc = item.dc.v
        /\ (hook.name = "manageCardButtons" /\ ~hook.threw) =>
             IF made.ok /\ FirstWith(data.received, {"save"}) > 0
             THEN /\ ExtraSaves(data.content) = (s + 1)..(s + Len(made.buttons))
                  /\ SubSeq(data.content, s + 1, s + Len(made.buttons)) = made.buttons
             ELSE ExtraSaves(data.content) = {}

\* dex and str are configured for an item that saves on str: dex alone is added.
C9_Witness ==
    /\ hook.name = "manageCardButtons" /\ ~hook.threw
    /\ item.saves = <<"dex", "str">> /\ item.saveAbility = "str" /\ item.dc = Num(15)
    /\ \E k \in 2..Len(data.content) :
         /\ data.content[k - 1] = El("save")
         /\ data.content[k] = [El("save") EXCEPT !.ability = "dex", !.dc = 15]
    /\ Cardinality(ExtraSaves(data.content)) = 1
(***************************************************************************)
(* C6, as stated: in every reachable state every stored index is a         *)
(* position of the item's current damage-parts list.                       *)
(***************************************************************************)
StoredIndices(it) ==
    UNION { Range(it.groups[g].parts) : g \in 1..Len(it.groups) }

C6_StoredIndicesValid ==
    \A i \in StoredIndices(item) : i \in 0..(Len(item.parts) - 1)

(***************************************************************************)
(* C6, amended: every stored index is a position of the damage-parts list  *)
(* as it was when the dialog stored it, so it is not negative and below    *)
(* the greatest length the list has had; it is a position of the current   *)
(* list unless a damage part has been removed since.                       *)
(***************************************************************************)
C6_StoredIndicesWereValid ==
    \A i \in StoredIndices(item) : i \in 0..(longest - 1)

\* A group stores the first two parts, and every update has been applied.
C6_Witness ==
    /\ pending = <<>>
    /\ Len(item.groups) >= 1 /\ item.groups[1].parts = <<0, 1>>
    /\ Len(item.parts) = longest

(***************************************************************************)
(* C10: a quick roll requests the damage roll only after the attack roll   *)
(* of the same click and weapon has come back truthy and after it has      *)
(* closed the dialog; a click whose attack roll gave nothing closes        *)
(* nothing and requests no damage roll; the damage roll is handed the      *)
(* cantrip's first part with its dice count raised by floor((level+1)/6).  *)
(***************************************************************************)
Before(name, i, w, k) ==
    \E j \in 1..(k - 1) :
        calls[j].call = name /\ calls[j].by = i /\ calls[j].weapon = w

C10_DamageOnlyAfterAttack ==
    /\ \A k \in 1..Len(calls) :
         calls[k].call \in {"rollDamage", "notify", "close"} =>
            /\ quick[calls[k].by].attack = "roll"
            /\ quick[calls[k].by].weapon = calls[k].weapon
            /\ Before("rollAttack", calls[k].by, calls[k].weapon, k)
            /\ calls[k].call # "close" => calls[k - 1] = Call("close", calls[k].by, calls[k].weapon)
    /\ \A k \in 1..Len(calls) :
         (calls[k].call = "rollDamage" /\ picker.cantrip # <<>>) =>
            /\ calls[k].configs.type = picker.cantrip[1][2]
            /\ calls[k].configs.parts =
                 << IF picker.level.tag = "number"
                    THEN ScaleDiceFormula(picker.cantrip[1][1],
                                          Num((picker.level.v + 1) \div 6))
                    ELSE picker.cantrip[1][1] >>
    /\ \A i \in 1..Len(quick) :
         quick[i].attack \in {"none", "rejected"} =>
            \A k \in 1..Len(calls) : calls[k].by = i => calls[k].call = "rollAttack"

\* At level 5 the cantrip's 1d8 went into the damage roll as 2d8, after a click
\* on the other weapon had its attack roll dismissed.
C10_Witness ==
    /\ Len(quick) = 2 /\ quick[1].attack = "none" /\ quick[2].attack = "roll"
    /\ picker.level = Num(5)
    /\ \E k \in 3..Len(calls) :
         /\ calls[k].call = "rollDamage" /\ calls[k].by = 2
         /\ calls[k].configs.parts = << <<"2", "d", "8">> >>
         /\ calls[k - 1].call = "close"

(***************************************************************************)
(* C11: no add-group or delete-group click is lost or applied twice, also  *)
(* when a further click or submission is handled before the host applied   *)
(* the previous update: once every update sent has been applied, the item  *)
(* holds one group per add click, less one per delete click (the dialog    *)
(* starts on an item without groups).                                      *)
(***************************************************************************)
C11_NoClickLost ==
    pending = <<>> => Len(item.groups) = clicks.adds - clicks.deletes

(***************************************************************************)
(* C12: after any sequence of add-group and delete-group operations the    *)
(* stored versatile group index, when set, denotes an existing group: it   *)
(* is a position of the stored list of groups.                             *)
(***************************************************************************)
C12_VersatileDenotesGroup ==
    item.versatile.tag = "number" => item.versatile.v \in 0..(Len(item.groups) - 1)

(***************************************************************************)
(* C13: the damage, healing or mixed classification on a group's button is *)
(* the classification of the types of exactly the damage parts a click on  *)
(* that button rolls, the parts constructParts selects for the button's    *)
(* group index, also when a damage part of the item has an empty formula.  *)
(* Stated for the buttons whose click rolls at least one part.             *)
(***************************************************************************)
KindOfTypes(types) ==
    IF \A t \in types : t # "" /\ t \in DamageTypes THEN "damage"
    ELSE IF \A t \in types : t # "" /\ t \in HealingTypes THEN "healing"
    ELSE "mixed"

RolledTypes(it, idx) ==
    LET group == ConstructParts(it, idx).group
    IN  {group[k][2] : k \in 1..Len(group)}

C13_KindIsOfRolledParts ==
    (hook.name = "manageCardButtons" /\ ~hook.threw) =>
        \A k \in 1..Len(data.content) :
            (/\ data.content[k].action = "rollgroup-damage"
             /\ ConstructParts(item, data.content[k].group).ok) =>
                data.content[k].kind = KindOfTypes(RolledTypes(item, data.content[k].group))

(***************************************************************************)
(* C14: a submission of the form as rendered, without any change, keeps    *)
(* the number and the order of the groups and stores for each group its    *)
(* previous indices that are positions of the item's damage parts, in      *)
(* ascending order and without repeats; no other index is stored.          *)
(***************************************************************************)
Latest(q) == q[Len(q)]

ExistingIndices(it, g) ==
    Ascending(Range(it.groups[g].parts) \cap 0..(Len(it.parts) - 1))

C14_UnchangedSubmitKeepsGroups ==
    [][ (Len(pending') = Len(pending) + 1 /\ Latest(pending').op = "none") =>
            LET sent == Latest(pending').groups IN
            /\ Len(sent) = Len(item.groups)
            /\ \A g \in 1..Len(sent) :
                  sent[g].parts = ExistingIndices(item, g)
      ]_vars

\* An unchanged form was submitted for two groups, the first storing 1 and then 0
\* with a single damage part on the item, the second storing nothing.
C14_Witness ==
    /\ Len(pending) = 1 /\ Latest(pending).op = "none"
    /\ Len(item.parts) = 1 /\ Len(item.groups) = 2
    /\ item.groups[1].parts = <<1, 0>> /\ Latest(pending).groups[1].parts = <<0>>
    /\ Latest(pending).groups[2].parts = <<>>

=============================================================================
